---- MODULE Spec2Model ----
(***************************************************************************)
(* A model of pyprofiler's CPUProfiler (src/src/pyprofiler/profiler.py):   *)
(* the decorator wrapper run by several threads, the session control       *)
(* operations start(), stop() and reset(), the profile() context manager,  *)
(* the monitor thread, the Timer, the CallFrame tree, the reduction        *)
(* performed by get_stats() and the ProfilerStats it returns.              *)
(*                                                                         *)
(* Time is an integer clock `now` (time.monotonic()), advanced by Tick.    *)
(* The wrapper is split where a step of another thread makes a            *)
(* difference: the entry up to the creation of the CallFrame (lines        *)
(* 198-241), the attach (244-250), the return of the function (254-257)    *)
(* and each `with self._lock:` block of the finally clause are one step    *)
(* each.  _sample_counter is written by the wrapper and read nowhere; it   *)
(* is left out.                                                            *)
(*                                                                         *)
(* Specifications: Spec (several threads, start/stop/reset), SpecReader    *)
(* (get_stats() step by step beside the wrapper), SpecSeq (one thread),    *)
(* SpecRec (one recursive function), SpecMonitor (real_time_monitoring),   *)
(* SpecProfile (profile() blocks), SpecSort (ProfilerStats alone),         *)
(* SpecSnapshot (a snapshot kept by its caller), SpecAdaptive (adaptive    *)
(* sampling, calls of up to 12 ms), SpecRounds (get_stats() round by       *)
(* round beside three calls), SpecDecorator (the module-level              *)
(* profile_function) and SpecRun (the profile hook of pyprofiler.run(),    *)
(* src/src/pyprofiler/__init__.py).                                        *)
(***************************************************************************)
EXTENDS Integers, Sequences, FiniteSets, TLC

\* ---------------------------------------------------------------- bounds
NThreads == 2
MaxCalls == 2
MaxTime == 2
MaxCtl == 3

Threads == 1..NThreads
\* names of the wrapped functions (func.__name__)
Funcs == {"f", "g"}
\* the caller name used when no frame is open (profiler.py line 226)
Module == "<module>"
Callers == Funcs \cup {Module}

\* sampling rates and random draws are counted in thousandths
RateScale == 1000
\* the configurations the model is started in: CPUProfiler(sampling_rate=..)
Rates == {500, 1000}
\* values of random.random(), which lies in [0, 1)
Draws == {0, 250, 750}
\* _call_start_times holds no entry for the name
NoStart == -1
\* _function_avg_times holds no entry for the name
NoAvg == -1
\* the moving average is kept in thousandths of a clock unit; a clock unit
\* is one millisecond
AvgScale == 1000
\* avg_time > 0.001 (profiler.py line 208), in thousandths of a millisecond
SlowThreshold == 1000
\* avg_time > 0.0001 (profiler.py line 210)
FastThreshold == 100
\* max(0.1, sample_rate / 2) (profiler.py line 213), in thousandths
MinRate == 100

VARIABLES
  is_running,            \* Profiler._is_running
  enabled,               \* CPUProfiler._enabled
  sampling_rate,         \* CPUProfiler.sampling_rate, in thousandths
  adaptive_sampling,     \* CPUProfiler.adaptive_sampling
  real_time_monitoring,  \* CPUProfiler.real_time_monitoring
  limits,                \* the bounds of the run: calls, clock readings, control calls
  timer_start,           \* Timer._start_time
  timer_end,             \* Timer._end_time (0 while running)
  now,                   \* time.monotonic()
  call_counts,           \* CPUProfiler._call_counts
  function_times,        \* CPUProfiler._function_times, in insertion order
  frames,                \* the CallFrame objects reachable from _call_tree
  stack,                 \* CPUProfiler._current_call_frames (frame ids)
  matrix,                \* CPUProfiler._caller_callee_counts
  avg_times,             \* CPUProfiler._function_avg_times
  lock,                  \* CPUProfiler._lock: 0 when free, else the holder
  act,                   \* per thread, its stack of wrapper activations
  raised,                \* per thread: an exception left the wrapper's finally
  made,                  \* history: accepted calls per name since reset()
  recorded,              \* history: timing samples appended since reset()
  dirty,                 \* history: reset() ran while a measured call was open
  ncalls,                \* history: wrapper invocations so far
  nctl,                  \* history: start()/stop()/reset() calls so far
  passed,                \* history: an unmeasured call was made while data were held
  reader,                \* the thread that runs get_stats() step by step
  stop_monitoring,       \* CPUProfiler._stop_monitoring (the Event is set)
  monitor_thread,        \* CPUProfiler._monitor_thread: 0 for None, else its index
  monitors,              \* the threads that run _monitor_loop, in order of creation
  ctl_pc,                \* the thread that calls stop(): "idle", or "join" at line 111
  ctx,                   \* the open profile() blocks: the values each one saved
  snapshot,              \* the ProfilerStats object built last
  call_start_times       \* profiler._call_start_times of pyprofiler.run()

config == <<sampling_rate, adaptive_sampling, real_time_monitoring, limits>>
timer == <<timer_start, timer_end>>
aggregator == <<call_counts, function_times, frames, stack, matrix, avg_times>>
history == <<made, recorded, dirty, ncalls, nctl, passed>>
monitoring == <<stop_monitoring, monitor_thread, monitors, ctl_pc>>
vars == <<is_running, enabled, config, timer, now, aggregator, lock, act,
          raised, history, reader, monitoring, ctx, snapshot,
          call_start_times>>

\* ------------------------------------------------------------- helpers
Max(a, b) == IF a >= b THEN a ELSE b
Min(a, b) == IF a <= b THEN a ELSE b

RECURSIVE SumSeq(_)
SumSeq(s) == IF s = <<>> THEN 0 ELSE Head(s) + SumSeq(Tail(s))

RECURSIVE SumOver(_, _)
\* the sum of fn[x] over the finite set S
SumOver(fn, S) ==
  IF S = {} THEN 0
  ELSE LET x == CHOOSE y \in S : TRUE IN fn[x] + SumOver(fn, S \ {x})

RECURSIVE GCD(_, _)
GCD(a, b) == IF b = 0 THEN a ELSE GCD(b, a % b)

\* the quotient n / d of two integers (d > 0, n >= 0), as a reduced fraction
Frac(n, d) == LET g == GCD(n, d) IN [num |-> n \div g, den |-> d \div g]
Zero == [num |-> 0, den |-> 1]

Last(s) == s[Len(s)]
Front(s) == SubSeq(s, 1, Len(s) - 1)

\* ---------------------------------------------------------------- Timer
\* Timer.elapsed
TimerElapsed ==
  IF timer_end = 0 THEN now - timer_start ELSE timer_end - timer_start

\* ------------------------------------------------------------ CallFrame
\* CallFrame.duration
Duration(fr) == fr.end_time - fr.start_time

\* the ids of the frames whose parent is frame id (CallFrame.children)
Children(id) == {c \in DOMAIN frames : frames[c].parent = id}

\* the roots: CPUProfiler._call_tree
Roots == Children(0)

\* sum(child.duration for child in frame.children)
ChildrenTime(id) ==
  SumOver([c \in DOMAIN frames |-> Duration(frames[c])], Children(id))

\* an own time that does not take the children's time off
OwnTimeWithChildren(id) == Duration(frames[id])

\* own = max(0, frame.duration - children_time)
OwnTime(id) == Max(0, Duration(frames[id]) - ChildrenTime(id))

\* ------------------------------------------------------------ get_stats
\* the value get_stats() returns when there is no data (None)
NoData == [none |-> TRUE]

\* own_times built from the roots alone, without the recursion
OwnTimesOfRoots ==
  [n \in {frames[i].name : i \in Roots} |->
     SumOver([i \in DOMAIN frames |-> OwnTime(i)],
             {i \in Roots : frames[i].name = n})]

\* own_times as built by the calls of _calculate_own_time_recursive on every
\* root: each frame of the tree is visited once and adds its own time to
\* the entry of its name
OwnTimes ==
  [n \in {frames[i].name : i \in DOMAIN frames} |->
     SumOver([i \in DOMAIN frames |-> OwnTime(i)],
             {i \in DOMAIN frames : frames[i].name = n})]

\* the callers dictionary collected for func_name (profiler.py lines 345-350)
CallersOf(func_name) ==
  [c \in {c \in Callers : matrix[c][func_name] > 0} |-> matrix[c][func_name]]

\* the callees dictionary collected for func_name
CalleesOf(func_name) ==
  [g \in {g \in Funcs : matrix[func_name][g] > 0} |-> matrix[func_name][g]]

\* one round of the loop of get_stats (lines 335-361): the FunctionStats
\* built for one item of _function_times, with the total_time and the
\* own_times computed before the loop
FunctionStatsFrom(item, total_time, own_times) ==
  LET call_count == Len(item.times)
      total == SumSeq(item.times)
  IN [name |-> item.name,
      call_count |-> call_count,
      total_time |-> total,
      avg_time |-> IF call_count > 0 THEN Frac(total, call_count) ELSE Zero,
      own_time |-> IF item.name \in DOMAIN own_times
                   THEN own_times[item.name] ELSE total,
      percentage |-> IF total_time > 0 THEN Frac(total * 100, total_time)
                     ELSE Zero,
      callers |-> CallersOf(item.name),
      callees |-> CalleesOf(item.name)]

\* the FunctionStats built for one item of _function_times when no other
\* thread runs during get_stats()
FunctionStatsOf(item, total_time) ==
  FunctionStatsFrom(item, total_time, OwnTimes)

\* an insertion in front of the elements that are equal
InsertBeforeEqual(x, s) ==
  LET k == Cardinality({i \in DOMAIN s : s[i].total_time > x.total_time})
  IN SubSeq(s, 1, k) \o <<x>> \o SubSeq(s, k + 1, Len(s))

\* insert x into the list s, sorted by total_time descending, behind every
\* element that is not smaller: equal elements keep their order
InsertSorted(x, s) ==
  LET k == Cardinality({i \in DOMAIN s : s[i].total_time >= x.total_time})
  IN SubSeq(s, 1, k) \o <<x>> \o SubSeq(s, k + 1, Len(s))

RECURSIVE SortedDesc(_)
\* sorted(function_stats.values(), key=lambda x: x.total_time, reverse=True)
SortedDesc(s) ==
  IF s = <<>> THEN <<>>
  ELSE InsertSorted(Last(s), SortedDesc(Front(s)))

\* ProfilerStats.__init__; function_stats is a dict, which keeps its keys in
\* the order of insertion: names
ProfilerStats(total_time, stats_seq) ==
  [total_time |-> total_time,
   names |-> [i \in DOMAIN stats_seq |-> stats_seq[i].name],
   function_stats |-> [n \in {stats_seq[i].name : i \in DOMAIN stats_seq} |->
      LET i == CHOOSE j \in DOMAIN stats_seq : stats_seq[j].name = n
      IN stats_seq[i]],
   function_list |-> SortedDesc(stats_seq)]

\* the slice s[:n] of a list
SliceTo(s, n) ==
  LET stop == IF n < 0 THEN Max(0, Len(s) + n) ELSE Min(n, Len(s))
  IN [i \in 1..stop |-> s[i]]

\* ProfilerStats.get_top_functions
GetTopFunctions(stats, n) == SliceTo(stats.function_list, n)

\* a get_stats() that returns an empty snapshot where there is no data
GetStatsEmptySnapshot ==
  ProfilerStats(TimerElapsed,
    [i \in DOMAIN function_times |->
       FunctionStatsOf(function_times[i], TimerElapsed)])

\* get_stats() run without another thread in between
GetStats ==
  IF function_times = <<>> THEN NoData
  ELSE LET total_time == TimerElapsed
       IN ProfilerStats(total_time,
            [i \in DOMAIN function_times |->
               FunctionStatsOf(function_times[i], total_time)])

\* the caller of get_stats() keeps the ProfilerStats object it returned (one
\* object is followed: the first that is not None)
TakeSnapshot ==
  /\ snapshot = NoData
  /\ function_times # <<>>
  /\ snapshot' = GetStats
  /\ UNCHANGED <<call_start_times, monitoring, ctx, is_running, enabled,
                 config, timer, now, aggregator, lock, act, raised, history,
                 reader>>

\* a ProfilerStats whose total_time reads the session timer when it is asked
SnapshotReadsTimer ==
  IF snapshot = NoData THEN NoData
  ELSE [snapshot EXCEPT !.total_time = TimerElapsed]

\* the fields of the kept ProfilerStats object as they read now: get_stats()
\* stores numbers and dictionaries and lists it has built itself (lines
\* 336-366), nothing that the profiler writes to afterwards
SnapshotNow == snapshot

\* the position of name in _function_times, 0 when it has no entry
IndexOf(name) ==
  IF \E i \in DOMAIN function_times : function_times[i].name = name
  THEN CHOOSE i \in DOMAIN function_times : function_times[i].name = name
  ELSE 0

\* ------------------------------------------------------------- wrapper
\* the activation of the wrapper that thread t is executing
Top(t) == Last(act[t])

AtPc(t, pc) == act[t] # <<>> /\ Top(t).pc = pc

\* thread t can call a wrapped function: it runs no wrapper, or the
\* innermost wrapped function it runs is executing its body
CanCall(t) ==
  /\ ncalls < limits.calls
  /\ \/ act[t] = <<>>
     \/ AtPc(t, "body")

SetTop(t, a) == [act EXCEPT ![t] = Front(@) \o <<a>>]

\* a sample rate that is halved without the floor of 0.1
EffectiveRateNoFloor(func_name) ==
  IF adaptive_sampling /\ avg_times[func_name] # NoAvg
  THEN LET avg_time == avg_times[func_name]
       IN IF avg_time > SlowThreshold
          THEN Min(RateScale, sampling_rate * 2)
          ELSE IF avg_time > FastThreshold
               THEN sampling_rate
               ELSE sampling_rate \div 2
  ELSE sampling_rate

\* the sample rate used for one call of func_name (profiler.py lines 204-213)
EffectiveRate(func_name) ==
  IF adaptive_sampling /\ avg_times[func_name] # NoAvg
  THEN LET avg_time == avg_times[func_name]
       IN IF avg_time > SlowThreshold
          THEN Min(RateScale, sampling_rate * 2)
          ELSE IF avg_time > FastThreshold
               THEN sampling_rate
               ELSE Max(MinRate, sampling_rate \div 2)
  ELSE sampling_rate

\* wrapper, lines 198-199: the profiler is disabled or not running and the
\* function runs unmeasured
WrapperSkip(t, func_name) ==
  /\ CanCall(t)
  /\ ~enabled \/ ~is_running
  /\ ncalls' = ncalls + 1
  /\ passed' = (passed \/ frames # <<>>)
  /\ UNCHANGED <<call_start_times, monitoring, ctx, snapshot, is_running,
                 enabled, config, timer, now, aggregator, lock, act, raised,
                 made, recorded, dirty, nctl, reader>>

\* a wrapper that counts the call before the sampling check rejects it
WrapperRejectCounted(t, func_name, r) ==
  /\ CanCall(t)
  /\ enabled /\ is_running
  /\ r > EffectiveRate(func_name)
  /\ call_counts' = [call_counts EXCEPT ![func_name] = @ + 1]
  /\ ncalls' = ncalls + 1
  /\ passed' = (passed \/ frames # <<>>)
  /\ UNCHANGED <<call_start_times, monitoring, ctx, snapshot, is_running,
                 enabled, config, timer, now, function_times, frames, stack,
                 matrix, avg_times, lock, act, raised, made, recorded, dirty,
                 nctl, reader>>

\* wrapper, lines 215-219: the draw r rejects the call
WrapperReject(t, func_name, r) ==
  /\ CanCall(t)
  /\ enabled /\ is_running
  /\ r > EffectiveRate(func_name)
  /\ ncalls' = ncalls + 1
  /\ passed' = (passed \/ frames # <<>>)
  /\ UNCHANGED <<call_start_times, monitoring, ctx, snapshot, is_running,
                 enabled, config, timer, now, aggregator, lock, act, raised,
                 made, recorded, dirty, nctl, reader>>

\* wrapper, lines 198-241: the call is accepted; its count is incremented
\* under the lock, then caller_name and start_time are read and the
\* CallFrame is created outside the lock.  The steps of other threads that
\* fall between these lines can be moved before line 198 without changing
\* what the lines read, except a reset(); they are taken as one step.
WrapperEnter(t, func_name, r) ==
  /\ CanCall(t)
  /\ enabled /\ is_running
  /\ ~(r > EffectiveRate(func_name))
  /\ lock = 0
  /\ call_counts' = [call_counts EXCEPT ![func_name] = @ + 1]
  /\ act' = [act EXCEPT ![t] = Append(@,
        [func |-> func_name, pc |-> "attach",
         caller_name |-> IF stack # <<>> THEN frames[Last(stack)].name
                         ELSE Module,
         start_time |-> now, frame |-> 0, end_time |-> 0])]
  /\ made' = [made EXCEPT ![func_name] = @ + 1]
  /\ ncalls' = ncalls + 1
  /\ UNCHANGED <<call_start_times, monitoring, ctx, snapshot, is_running,
                 enabled, config, timer, now, function_times, frames, stack,
                 matrix, avg_times, lock, raised, recorded, dirty, nctl,
                 passed, reader>>

\* an attach that appends every frame to _call_tree
StepAttachAsRoot(t) ==
  /\ AtPc(t, "attach")
  /\ lock = 0
  /\ LET a == Top(t)
         id == Len(frames) + 1
     IN /\ frames' = Append(frames,
              [name |-> a.func, start_time |-> a.start_time, end_time |-> 0,
               parent |-> 0, thread |-> t])
        /\ stack' = Append(stack, id)
        /\ matrix' = [matrix EXCEPT ![a.caller_name][a.func] = @ + 1]
        /\ act' = SetTop(t, [a EXCEPT !.pc = "body", !.frame = id])
  /\ UNCHANGED <<call_start_times, monitoring, ctx, snapshot, is_running,
                 enabled, config, timer, now, call_counts, function_times,
                 avg_times, lock, raised, history, reader>>

\* wrapper, lines 244-250: the frame is attached to the tree and pushed, and
\* the caller/callee count is incremented
StepAttach(t) ==
  /\ AtPc(t, "attach")
  /\ lock = 0
  /\ LET a == Top(t)
         id == Len(frames) + 1
     IN /\ frames' = Append(frames,
              [name |-> a.func, start_time |-> a.start_time, end_time |-> 0,
               parent |-> IF stack # <<>> THEN Last(stack) ELSE 0,
               thread |-> t])
        /\ stack' = Append(stack, id)
        /\ matrix' = [matrix EXCEPT ![a.caller_name][a.func] = @ + 1]
        /\ act' = SetTop(t, [a EXCEPT !.pc = "body", !.frame = id])
  /\ UNCHANGED <<call_start_times, monitoring, ctx, snapshot, is_running,
                 enabled, config, timer, now, call_counts, function_times,
                 avg_times, lock, raised, history, reader>>

\* wrapper, lines 254-257: func returns or raises, and the finally block
\* reads end_time
StepReturn(t) ==
  /\ AtPc(t, "body")
  /\ act' = SetTop(t, [Top(t) EXCEPT
        !.pc = IF adaptive_sampling THEN "avg" ELSE "pop",
        !.end_time = now])
  /\ UNCHANGED <<call_start_times, monitoring, ctx, snapshot, is_running,
                 enabled, config, timer, now, aggregator, lock, raised,
                 history, reader>>

\* 0.9 * old_avg + 0.1 * elapsed, in thousandths of a clock unit
MovingAverage(old_avg, elapsed) == (9 * old_avg + AvgScale * elapsed) \div 10

\* an update of the moving average with the call's own time, the time of
\* the children of its frame taken off
StepAvgOwnTime(t) ==
  /\ AtPc(t, "avg")
  /\ lock = 0
  /\ LET a == Top(t)
         old_avg == IF avg_times[a.func] = NoAvg THEN 0 ELSE avg_times[a.func]
         children_time == IF a.frame = 0 THEN 0 ELSE ChildrenTime(a.frame)
     IN avg_times' = [avg_times EXCEPT ![a.func] =
                        MovingAverage(old_avg,
                          Max(0, a.end_time - a.start_time - children_time))]
  /\ act' = SetTop(t, [Top(t) EXCEPT !.pc = "pop"])
  /\ UNCHANGED <<call_start_times, monitoring, ctx, snapshot, is_running,
                 enabled, config, timer, now, call_counts, function_times,
                 frames, stack, matrix, lock, raised, history, reader>>

\* wrapper, lines 260-264: the moving average of func_name is updated
StepAvg(t) ==
  /\ AtPc(t, "avg")
  /\ lock = 0
  /\ LET a == Top(t)
         old_avg == IF avg_times[a.func] = NoAvg THEN 0 ELSE avg_times[a.func]
     IN avg_times' = [avg_times EXCEPT ![a.func] =
                        MovingAverage(old_avg, a.end_time - a.start_time)]
  /\ act' = SetTop(t, [Top(t) EXCEPT !.pc = "pop"])
  /\ UNCHANGED <<call_start_times, monitoring, ctx, snapshot, is_running,
                 enabled, config, timer, now, call_counts, function_times,
                 frames, stack, matrix, lock, raised, history, reader>>

\* the frames after call_frame.end_time = end_time; a frame that reset()
\* dropped from the tree (frame = 0) is no longer part of the state
StampEnd(a) ==
  IF a.frame = 0 THEN frames
  ELSE [frames EXCEPT ![a.frame].end_time = a.end_time]

\* wrapper, lines 267-269: the frame is stamped and the top of
\* _current_call_frames is popped; list.pop() of an empty list raises
\* IndexError, which leaves the finally block (the lock is released by `with`)
\* and the wrapper; the caller, if it is a wrapped function, goes on in its
\* body, where it returns (the exception passes through) or carries on (it
\* caught the exception)
\* an exit that stamps the frame and leaves the stack as it is
StepPopKeepsStack(t) ==
  /\ AtPc(t, "pop")
  /\ lock = 0
  /\ frames' = StampEnd(Top(t))
  /\ act' = SetTop(t, [Top(t) EXCEPT !.pc = "rec"])
  /\ UNCHANGED <<call_start_times, monitoring, ctx, snapshot, is_running,
                 enabled, config, timer, now, call_counts, function_times,
                 stack, matrix, avg_times, lock, raised, history, reader>>

StepPop(t) ==
  /\ AtPc(t, "pop")
  /\ lock = 0
  /\ frames' = StampEnd(Top(t))
  /\ IF stack = <<>>
     THEN /\ act' = [act EXCEPT ![t] = Front(@)]
          /\ raised' = [raised EXCEPT ![t] = TRUE]
          /\ UNCHANGED stack
     ELSE /\ stack' = Front(stack)
          /\ act' = SetTop(t, [Top(t) EXCEPT !.pc = "rec"])
          /\ UNCHANGED raised
  /\ UNCHANGED <<call_start_times, monitoring, ctx, snapshot, is_running,
                 enabled, config, timer, now, call_counts, function_times,
                 matrix, avg_times, lock, history, reader>>

\* a record step that binds a new list on every call
AppendTimeOverwrite(func_name, elapsed) ==
  IF IndexOf(func_name) = 0
  THEN Append(function_times, [name |-> func_name, times |-> <<elapsed>>])
  ELSE [function_times EXCEPT ![IndexOf(func_name)].times = <<elapsed>>]

\* self._function_times[func_name].append(elapsed), creating the list first
AppendTime(func_name, elapsed) ==
  IF IndexOf(func_name) = 0
  THEN Append(function_times, [name |-> func_name, times |-> <<elapsed>>])
  ELSE [function_times EXCEPT ![IndexOf(func_name)].times = Append(@, elapsed)]

\* wrapper, lines 272-277: the elapsed time is recorded and the wrapper
\* returns
StepRecord(t) ==
  /\ AtPc(t, "rec")
  /\ lock = 0
  /\ function_times' = AppendTime(Top(t).func, Top(t).end_time - Top(t).start_time)
  /\ act' = [act EXCEPT ![t] = Front(@)]
  /\ recorded' = recorded + 1
  /\ UNCHANGED <<call_start_times, monitoring, ctx, snapshot, is_running,
                 enabled, config, timer, now, call_counts, frames, stack,
                 matrix, avg_times, lock, raised, made, dirty, ncalls, nctl,
                 passed, reader>>

\* ------------------------------------------------------ session control
\* a thread that enters _monitor_loop; n and live describe the dictionary
\* iterator of the get_stats() it runs (see GetStatsBegin)
NewMonitor == [pc |-> "loop", n |-> 0, live |-> TRUE]

\* CPUProfiler.start: with real_time_monitoring the Event is cleared and a
\* new thread is created and started, whether or not one exists
Start ==
  /\ nctl < limits.ctl
  /\ ctl_pc = "idle"
  /\ is_running' = TRUE
  /\ timer_start' = now
  /\ IF real_time_monitoring
     THEN /\ stop_monitoring' = FALSE
          /\ monitors' = Append(monitors, NewMonitor)
          /\ monitor_thread' = Len(monitors) + 1
     ELSE UNCHANGED <<stop_monitoring, monitors, monitor_thread>>
  /\ nctl' = nctl + 1
  /\ UNCHANGED <<call_start_times, ctl_pc, ctx, snapshot, enabled, config,
                 timer_end, now, aggregator, lock, act, raised, made,
                 recorded, dirty, ncalls, passed, reader>>

\* a stop() that also empties the stack of open frames
StopDropsStack ==
  /\ nctl < limits.ctl
  /\ ctl_pc = "idle"
  /\ is_running' = FALSE
  /\ timer_end' = now
  /\ stack' = <<>>
  /\ nctl' = nctl + 1
  /\ UNCHANGED <<call_start_times, monitoring, ctx, snapshot, enabled, config,
                 timer_start, now, call_counts, function_times, frames,
                 matrix, avg_times, lock, act, raised, made, recorded, dirty,
                 ncalls, passed, reader>>

\* CPUProfiler.stop, lines 105-110: the session stops; with a monitor thread
\* the Event is set and the caller goes on to join it (line 111).  A monitor
\* that runs between line 105 and line 110 reads what it reads after line
\* 110, or wakes from a wait that can end at any time: the lines are one step.
Stop ==
  /\ nctl < limits.ctl
  /\ ctl_pc = "idle"
  /\ is_running' = FALSE
  /\ timer_end' = now
  /\ IF monitor_thread # 0
     THEN /\ stop_monitoring' = TRUE
          /\ ctl_pc' = "join"
     ELSE UNCHANGED <<stop_monitoring, ctl_pc>>
  /\ nctl' = nctl + 1
  /\ UNCHANGED <<call_start_times, monitor_thread, monitors, ctx, snapshot,
                 enabled, config, timer_start, now, aggregator, lock, act,
                 raised, made, recorded, dirty, ncalls, passed, reader>>

\* CPUProfiler.stop, lines 111-112: join(timeout=2.0) returns, because the
\* monitor thread has ended or because the two seconds have passed, and the
\* handle is dropped
StopJoin ==
  /\ ctl_pc = "join"
  /\ ctl_pc' = "idle"
  /\ monitor_thread' = 0
  /\ UNCHANGED <<call_start_times, stop_monitoring, monitors, ctx, snapshot,
                 is_running, enabled, config, timer, now, aggregator, lock,
                 act, raised, history, reader>>

\* ------------------------------------------------------- _monitor_loop
\* The thread m created by start() runs _monitor_loop.  Its steps: the loop
\* condition (line 117), the return of the wait and the test that follows
\* it (118-121), the start of get_stats() (124) and its end followed by the
\* printing (124-130).  The wait ends when the Event is set or when
\* monitor_interval has passed, which can be at any time.  get_stats() is
\* taken in two steps, the creation of the dictionary iterator and the end
\* of the loop over it: the iterator raises RuntimeError when the size of
\* the dictionary has changed in between (see GetStatsNext).  The text
\* printed is not part of the state.
MonitorAt(m, pc) == m \in DOMAIN monitors /\ monitors[m].pc = pc

SetMonitor(m, r) == [monitors EXCEPT ![m] = r]

\* _monitor_loop, line 117: the loop goes on while the Event is not set and
\* the session is running; else the thread ends
MonitorLoop(m) ==
  /\ MonitorAt(m, "loop")
  /\ monitors' = SetMonitor(m, [monitors[m] EXCEPT !.pc =
        IF ~stop_monitoring /\ is_running THEN "wait" ELSE "done"])
  /\ UNCHANGED <<call_start_times, stop_monitoring, monitor_thread, ctl_pc,
                 ctx, snapshot, is_running, enabled, config, timer, now,
                 aggregator, lock, act, raised, history, reader>>

\* _monitor_loop, lines 118-121: the wait returns, and the thread ends if
\* the session is not running
MonitorWake(m) ==
  /\ MonitorAt(m, "wait")
  /\ monitors' = SetMonitor(m, [monitors[m] EXCEPT !.pc =
        IF ~is_running THEN "done" ELSE "stats"])
  /\ UNCHANGED <<call_start_times, stop_monitoring, monitor_thread, ctl_pc,
                 ctx, snapshot, is_running, enabled, config, timer, now,
                 aggregator, lock, act, raised, history, reader>>

\* _monitor_loop, line 124, get_stats lines 318-335: with no data
\* get_stats() returns None and nothing is printed; else the loop over
\* _function_times begins
MonitorGetStats(m) ==
  /\ MonitorAt(m, "stats")
  /\ monitors' = SetMonitor(m,
        IF function_times = <<>> THEN [monitors[m] EXCEPT !.pc = "loop"]
        ELSE [pc |-> "iter", n |-> Len(function_times), live |-> TRUE])
  /\ UNCHANGED <<call_start_times, stop_monitoring, monitor_thread, ctl_pc,
                 ctx, snapshot, is_running, enabled, config, timer, now,
                 aggregator, lock, act, raised, history, reader>>

\* _monitor_loop, lines 124-130, get_stats lines 335-366: the loop over
\* _function_times ends.  If the dictionary has changed size the iterator
\* raises RuntimeError, which nothing in _monitor_loop catches: the thread
\* ends.  Else the snapshot is printed and the loop goes on.
MonitorEmit(m) ==
  /\ MonitorAt(m, "iter")
  /\ monitors' = SetMonitor(m, [monitors[m] EXCEPT !.pc =
        IF monitors[m].live /\ Len(function_times) # monitors[m].n
        THEN "raised" ELSE "loop"])
  /\ UNCHANGED <<call_start_times, stop_monitoring, monitor_thread, ctl_pc,
                 ctx, snapshot, is_running, enabled, config, timer, now,
                 aggregator, lock, act, raised, history, reader>>

\* ------------------------------------------------------------ profile()
\* a block that does not set the session running
ProfileEnterAsIs(en) ==
  /\ nctl < limits.ctl
  /\ ctl_pc = "idle"
  /\ ctx' = Append(ctx, [old_enabled |-> enabled, old_running |-> is_running])
  /\ enabled' = en
  /\ timer_start' = now
  /\ nctl' = nctl + 1
  /\ UNCHANGED <<call_start_times, is_running, monitoring, snapshot, config,
                 timer_end, now, aggregator, lock, act, raised, made,
                 recorded, dirty, ncalls, passed, reader>>

\* `with profiler.profile(enabled=en):` is entered (lines 297-301): the
\* values of _enabled and _is_running are saved, _enabled is set to en, the
\* session is set running and the timer started
ProfileEnter(en) ==
  /\ nctl < limits.ctl
  /\ ctl_pc = "idle"
  /\ ctx' = Append(ctx, [old_enabled |-> enabled, old_running |-> is_running])
  /\ enabled' = en
  /\ is_running' = TRUE
  /\ timer_start' = now
  /\ nctl' = nctl + 1
  /\ UNCHANGED <<call_start_times, monitoring, snapshot, config, timer_end,
                 now, aggregator, lock, act, raised, made, recorded, dirty,
                 ncalls, passed, reader>>

\* a block that is left with the flags as the block set them
ProfileExitKeepsFlags ==
  /\ ctx # <<>>
  /\ ctl_pc = "idle"
  /\ timer_end' = now
  /\ ctx' = Front(ctx)
  /\ UNCHANGED <<call_start_times, monitoring, snapshot, is_running,
                 enabled, config, timer_start, now, aggregator, lock, act,
                 raised, history, reader>>

\* the innermost profile() block is left (lines 305-307): the timer is
\* stopped and the saved values are put back
ProfileExit ==
  /\ ctx # <<>>
  /\ ctl_pc = "idle"
  /\ timer_end' = now
  /\ is_running' = Last(ctx).old_running
  /\ enabled' = Last(ctx).old_enabled
  /\ ctx' = Front(ctx)
  /\ UNCHANGED <<call_start_times, monitoring, snapshot, config, timer_start,
                 now, aggregator, lock, act, raised, history, reader>>

\* ------------------------------------------------------ pyprofiler.run()
\* run() (src/src/pyprofiler/__init__.py) creates a CPUProfiler, starts it
\* and installs profile_hook with sys.setprofile and threading.setprofile.
\* The interpreter calls the hook on every call and every return of a Python
\* function; Funcs are the names the hook does not exclude (lines 66-80).
\* act[t] holds the Python frames open on thread t: the name, and whether
\* the sampling draw accepted the call event.  The threads are followed
\* while the hook is installed; one run of the hook is one step.

\* run(), lines 51-100: the profiler is created and started and the hook is
\* installed
RunBegin ==
  /\ nctl = 0
  /\ Start

\* profile_hook on a call event of func_name on thread t, with the draw r
\* (lines 83-88)
HookCall(t, func_name, r) ==
  /\ is_running
  /\ ncalls < limits.calls
  /\ ncalls' = ncalls + 1
  /\ IF r > sampling_rate
     THEN /\ act' = [act EXCEPT ![t] = Append(@,
                 [func |-> func_name, pc |-> "run", accepted |-> FALSE])]
          /\ UNCHANGED <<call_counts, call_start_times, made>>
     ELSE /\ act' = [act EXCEPT ![t] = Append(@,
                 [func |-> func_name, pc |-> "run", accepted |-> TRUE])]
          /\ call_counts' = [call_counts EXCEPT ![func_name] = @ + 1]
          /\ call_start_times' = [call_start_times EXCEPT ![func_name] = now]
          /\ made' = [made EXCEPT ![func_name] = @ + 1]
  /\ UNCHANGED <<monitoring, ctx, snapshot, is_running, enabled, config,
                 timer, now, function_times, frames, stack, matrix,
                 avg_times, lock, raised, recorded, dirty, nctl, passed,
                 reader>>

\* profile_hook on the return event of the innermost Python frame of thread
\* t (lines 90-96): the start time stored under the name is taken out, and
\* if there was one the elapsed time is appended
HookReturn(t) ==
  /\ is_running
  /\ AtPc(t, "run")
  /\ LET func_name == Top(t).func
         start_time == call_start_times[func_name]
     IN IF start_time # NoStart
        THEN /\ call_start_times' =
                  [call_start_times EXCEPT ![func_name] = NoStart]
             /\ function_times' = AppendTime(func_name, now - start_time)
             /\ recorded' = recorded + 1
        ELSE UNCHANGED <<call_start_times, function_times, recorded>>
  /\ act' = [act EXCEPT ![t] = Front(@)]
  /\ UNCHANGED <<monitoring, ctx, snapshot, is_running, enabled, config,
                 timer, now, call_counts, frames, stack, matrix, avg_times,
                 lock, raised, made, dirty, ncalls, nctl, passed, reader>>

\* run(), lines 102-114: the statement has ended on the main thread, thread
\* 1; the hook is removed, the profiler stopped, and the result of
\* get_stats() is returned
RunEnd ==
  /\ nctl = 1
  /\ act[1] = <<>>
  /\ is_running' = FALSE
  /\ timer_end' = now
  /\ nctl' = nctl + 1
  /\ UNCHANGED <<call_start_times, monitoring, ctx, enabled, config,
                 timer_start, now, aggregator, lock, act, raised, made,
                 recorded, dirty, ncalls, passed, reader>>
  /\ snapshot' = GetStats'

\* the activations after reset(): their frames are no longer in the tree
Detached(stk) == [i \in DOMAIN stk |-> [stk[i] EXCEPT !.frame = 0]]

\* a reset() that leaves the caller/callee counts in place
ResetKeepsMatrix ==
  /\ nctl < limits.ctl
  /\ ctl_pc = "idle"
  /\ function_times' = <<>>
  /\ call_counts' = [f \in Funcs |-> 0]
  /\ frames' = <<>>
  /\ stack' = <<>>
  /\ avg_times' = [f \in Funcs |-> NoAvg]
  /\ timer_start' = 0
  /\ timer_end' = 0
  /\ act' = [t \in Threads |-> Detached(act[t])]
  /\ made' = [f \in Funcs |-> 0]
  /\ recorded' = 0
  /\ dirty' = (dirty \/ \E t \in Threads : act[t] # <<>>)
  /\ nctl' = nctl + 1
  /\ reader' = IF reader.pc = "iter" THEN [reader EXCEPT !.live = FALSE]
               ELSE reader
  /\ monitors' = [m \in DOMAIN monitors |->
                    IF monitors[m].pc = "iter"
                    THEN [monitors[m] EXCEPT !.live = FALSE] ELSE monitors[m]]
  /\ UNCHANGED <<call_start_times, stop_monitoring, monitor_thread, ctl_pc,
                 ctx, snapshot, matrix, is_running, enabled, config, now,
                 lock, raised, ncalls, passed>>

\* CPUProfiler.reset
Reset ==
  /\ nctl < limits.ctl
  /\ ctl_pc = "idle"
  /\ function_times' = <<>>
  /\ call_counts' = [f \in Funcs |-> 0]
  /\ frames' = <<>>
  /\ stack' = <<>>
  /\ matrix' = [c \in Callers |-> [f \in Funcs |-> 0]]
  /\ avg_times' = [f \in Funcs |-> NoAvg]
  /\ timer_start' = 0
  /\ timer_end' = 0
  /\ act' = [t \in Threads |-> Detached(act[t])]
  /\ made' = [f \in Funcs |-> 0]
  /\ recorded' = 0
  /\ dirty' = (dirty \/ \E t \in Threads : act[t] # <<>>)
  /\ nctl' = nctl + 1
  /\ reader' = IF reader.pc = "iter" THEN [reader EXCEPT !.live = FALSE]
               ELSE reader
  /\ monitors' = [m \in DOMAIN monitors |->
                    IF monitors[m].pc = "iter"
                    THEN [monitors[m] EXCEPT !.live = FALSE] ELSE monitors[m]]
  /\ UNCHANGED <<call_start_times, stop_monitoring, monitor_thread, ctl_pc,
                 ctx, snapshot, is_running, enabled, config, now, lock,
                 raised, ncalls, passed>>

\* time.monotonic() advances to a later one of the readings of the run
Tick ==
  /\ \E reading \in limits.times :
       /\ reading > now
       /\ now' = reading
  /\ UNCHANGED <<call_start_times, monitoring, ctx, snapshot, is_running,
                 enabled, config, timer, aggregator, lock, act, raised,
                 history, reader>>

\* --------------------------------------------- get_stats, step by step
\* get_stats() takes no lock.  Another thread can run between two rounds of
\* its loop `for func_name, times in self._function_times.items()`; the
\* dictionary iterator raises RuntimeError when the dictionary has changed
\* size since the iterator was created.  The reader holds: pc, the size n of
\* the dictionary when the loop began, the number i of items taken, and
\* whether the dictionary it iterates is still self._function_times (reset()
\* binds a new one).  The work of one round (lines 336-361) is one step.
Idle ==
  [pc |-> "idle", n |-> 0, i |-> 0, live |-> TRUE, total_time |-> 0,
   own_times |-> <<>>, stats |-> <<>>]

\* get_stats, lines 318-335: no data, or total_time is read, own_times is
\* built, the iterator over _function_times is created and hands out the
\* first item
GetStatsBegin ==
  /\ reader.pc # "iter"
  /\ reader' = IF function_times = <<>>
               THEN [Idle EXCEPT !.pc = "returned"]
               ELSE [pc |-> "iter", n |-> Len(function_times), i |-> 1,
                     live |-> TRUE, total_time |-> TimerElapsed,
                     own_times |-> OwnTimes, stats |-> <<>>]
  /\ UNCHANGED <<call_start_times, monitoring, ctx, snapshot, is_running,
                 enabled, config, timer, now, aggregator, lock, act, raised,
                 history>>

\* get_stats, lines 335-366: the round for the item taken is done, its
\* FunctionStats is stored, and the iterator is asked for the next item;
\* with none left the snapshot is built from the stored FunctionStats and
\* returned.  reader.stats is function_stats in the order of the rounds.
GetStatsNext ==
  /\ reader.pc = "iter"
  /\ LET done == IF reader.live
                 THEN Append(reader.stats,
                        FunctionStatsFrom(function_times[reader.i],
                                          reader.total_time,
                                          reader.own_times))
                 ELSE reader.stats
     IN reader' =
          IF reader.live /\ Len(function_times) # reader.n
          THEN [reader EXCEPT !.pc = "raised", !.stats = <<>>]
          ELSE IF reader.i = reader.n
               THEN [reader EXCEPT !.pc = "returned", !.stats = done]
               ELSE [reader EXCEPT !.i = @ + 1, !.stats = done]
  /\ UNCHANGED <<call_start_times, monitoring, ctx, snapshot, is_running,
                 enabled, config, timer, now, aggregator, lock, act, raised,
                 history>>

\* ------------------------------------------------------- specification
\* the state after CPUProfiler(sampling_rate=rate, adaptive_sampling=adaptive,
\* real_time_monitoring=monitoring_on), in a run bounded by lim
Constructed(rate, adaptive, monitoring_on, lim) ==
  /\ is_running = FALSE
  /\ enabled = TRUE
  /\ sampling_rate = rate
  /\ adaptive_sampling = adaptive
  /\ real_time_monitoring = monitoring_on
  /\ limits = lim
  /\ timer_start = 0
  /\ timer_end = 0
  /\ now = 1
  /\ call_counts = [f \in Funcs |-> 0]
  /\ function_times = <<>>
  /\ frames = <<>>
  /\ stack = <<>>
  /\ matrix = [c \in Callers |-> [f \in Funcs |-> 0]]
  /\ avg_times = [f \in Funcs |-> NoAvg]
  /\ lock = 0
  /\ act = [t \in Threads |-> <<>>]
  /\ raised = [t \in Threads |-> FALSE]
  /\ made = [f \in Funcs |-> 0]
  /\ recorded = 0
  /\ dirty = FALSE
  /\ ncalls = 0
  /\ nctl = 0
  /\ passed = FALSE
  /\ reader = Idle
  /\ stop_monitoring = FALSE
  /\ monitor_thread = 0
  /\ monitors = <<>>
  /\ ctl_pc = "idle"
  /\ ctx = <<>>
  /\ snapshot = NoData
  /\ call_start_times = [f \in Funcs |-> NoStart]

\* CPUProfiler(sampling_rate=.., adaptive_sampling=..) and several threads
Init ==
  \E rate \in Rates, adaptive \in BOOLEAN :
    Constructed(rate, adaptive, FALSE,
                [calls |-> MaxCalls, times |-> 1..MaxTime, ctl |-> MaxCtl])

Next ==
  \/ \E t \in Threads, f \in Funcs : WrapperSkip(t, f)
  \/ \E t \in Threads, f \in Funcs, r \in Draws : WrapperReject(t, f, r)
  \/ \E t \in Threads, f \in Funcs, r \in Draws : WrapperEnter(t, f, r)
  \/ \E t \in Threads : StepAttach(t)
  \/ \E t \in Threads : StepReturn(t)
  \/ \E t \in Threads : StepAvg(t)
  \/ \E t \in Threads : StepPop(t)
  \/ \E t \in Threads : StepRecord(t)
  \/ Start
  \/ Stop
  \/ Reset
  \/ Tick

Spec == Init /\ [][Next]_vars

\* measured calls on every thread with get_stats() running beside them
NextReader ==
  \/ \E t \in Threads, f \in Funcs, r \in Draws : WrapperEnter(t, f, r)
  \/ \E t \in Threads : StepAttach(t)
  \/ \E t \in Threads : StepReturn(t)
  \/ \E t \in Threads : StepAvg(t)
  \/ \E t \in Threads : StepPop(t)
  \/ \E t \in Threads : StepRecord(t)
  \/ Start
  \/ Tick
  \/ GetStatsBegin
  \/ GetStatsNext

SpecReader == Init /\ [][NextReader]_vars

\* ------------------------------------- get_stats() beside running calls
RoundCalls == 3
RoundTime == 2
RoundCtl == 1

\* CPUProfiler(); two threads call the wrapped functions while a third
\* thread runs get_stats()
InitRounds ==
  Constructed(RateScale, FALSE, FALSE,
              [calls |-> RoundCalls, times |-> 1..RoundTime,
               ctl |-> RoundCtl])

NextRounds ==
  \/ \E t \in Threads, f \in Funcs, r \in Draws : WrapperEnter(t, f, r)
  \/ \E t \in Threads : StepAttach(t)
  \/ \E t \in Threads : StepReturn(t)
  \/ \E t \in Threads : StepPop(t)
  \/ \E t \in Threads : StepRecord(t)
  \/ Start
  \/ Tick
  \/ GetStatsBegin
  \/ GetStatsNext

SpecRounds == InitRounds /\ [][NextRounds]_vars

\* ---------------------------------------------------- adaptive sampling
AdaCalls == 3
AdaCtl == 1

\* the readings of the clock, in ms: calls take 0, 1, 10, 11 or 12 ms
AdaTimes == {1, 2, 12, 13}

\* CPUProfiler(sampling_rate=0.05), (sampling_rate=0.1), (sampling_rate=0.5)
\* and (sampling_rate=1.0)
AdaRates == {50, 100, 500, RateScale}

\* CPUProfiler(sampling_rate=.., adaptive_sampling=..); one thread calls
\* start() and the wrapped functions, which take up to 12 ms
InitAdaptive ==
  \E rate \in AdaRates, adaptive \in BOOLEAN :
    Constructed(rate, adaptive, FALSE,
                [calls |-> AdaCalls, times |-> AdaTimes, ctl |-> AdaCtl])

NextAdaptive ==
  \/ \E f \in Funcs : WrapperSkip(1, f)
  \/ \E f \in Funcs, r \in Draws : WrapperReject(1, f, r)
  \/ \E f \in Funcs, r \in Draws : WrapperEnter(1, f, r)
  \/ StepAttach(1)
  \/ StepReturn(1)
  \/ StepAvg(1)
  \/ StepPop(1)
  \/ StepRecord(1)
  \/ Start
  \/ Tick

SpecAdaptive == InitAdaptive /\ [][NextAdaptive]_vars

\* ------------------------------------- the module-level profile_function
\* profile_function(func) creates a CPUProfiler of its own with the default
\* arguments and returns its wrapper of func (profiler.py lines 554-564).
\* The profiler is a local of the decorator: nothing starts it, and the only
\* operation on it is a call of the decorated function.
DecCalls == 33
DecTime == 3

InitDecorator ==
  Constructed(RateScale, FALSE, FALSE,
              [calls |-> DecCalls, times |-> 1..DecTime, ctl |-> 0])

NextDecorator ==
  \/ \E t \in Threads, f \in Funcs : WrapperSkip(t, f)
  \/ Tick

SpecDecorator == InitDecorator /\ [][NextDecorator]_vars

\* ------------------------------------------------------ pyprofiler.run()
RunCalls == 3
RunTime == 2
RunCtl == 2

\* run(.., sampling_rate=0.5) and run(..), whose rate is 1.0
RunRates == {500, RateScale}

InitRun ==
  \E rate \in RunRates :
    Constructed(rate, FALSE, FALSE,
                [calls |-> RunCalls, times |-> 1..RunTime, ctl |-> RunCtl])

NextRun ==
  \/ RunBegin
  \/ \E t \in Threads, f \in Funcs, r \in Draws : HookCall(t, f, r)
  \/ \E t \in Threads : HookReturn(t)
  \/ Tick
  \/ RunEnd

SpecRun == InitRun /\ [][NextRun]_vars

\* ------------------------------------------------- a snapshot is kept
\* CPUProfiler(); the threads call the wrapped functions, start(), stop()
\* and reset(), and the snapshot returned by one get_stats() is kept
InitSnapshot ==
  Constructed(RateScale, FALSE, FALSE,
              [calls |-> MaxCalls, times |-> 1..MaxTime, ctl |-> MaxCtl])

NextSnapshot ==
  \/ \E t \in Threads, f \in Funcs : WrapperSkip(t, f)
  \/ \E t \in Threads, f \in Funcs, r \in Draws : WrapperEnter(t, f, r)
  \/ \E t \in Threads : StepAttach(t)
  \/ \E t \in Threads : StepReturn(t)
  \/ \E t \in Threads : StepPop(t)
  \/ \E t \in Threads : StepRecord(t)
  \/ Start
  \/ Stop
  \/ Reset
  \/ Tick
  \/ TakeSnapshot

SpecSnapshot == InitSnapshot /\ [][NextSnapshot]_vars

\* ------------------------------------------- the sequential program
SeqCalls == 3
SeqTime == 3
SeqCtl == 2

\* CPUProfiler(sampling_rate=0.0) and CPUProfiler(), whose rate is 1.0
SeqRates == {0, RateScale}

\* one thread calls the wrapped functions and start() and stop(); adaptive
\* sampling and monitoring have their defaults, off
InitSeq ==
  \E rate \in SeqRates :
    Constructed(rate, FALSE, FALSE,
                [calls |-> SeqCalls, times |-> 1..SeqTime, ctl |-> SeqCtl])

NextSeq ==
  \/ \E f \in Funcs : WrapperSkip(1, f)
  \/ \E f \in Funcs, r \in Draws : WrapperReject(1, f, r)
  \/ \E f \in Funcs, r \in Draws : WrapperEnter(1, f, r)
  \/ StepAttach(1)
  \/ StepReturn(1)
  \/ StepPop(1)
  \/ StepRecord(1)
  \/ Start
  \/ Stop
  \/ Tick

SpecSeq == InitSeq /\ [][NextSeq]_vars

\* ------------------------------------------------ a recursive function
RecDepth == 5
RecTime == 2
RecCtl == 1

\* CPUProfiler(); one thread calls start() and the wrapped function f, which
\* calls itself
InitRec ==
  Constructed(RateScale, FALSE, FALSE,
              [calls |-> RecDepth, times |-> 1..RecTime, ctl |-> RecCtl])

NextRec ==
  \/ WrapperSkip(1, "f")
  \/ \E r \in Draws : WrapperEnter(1, "f", r)
  \/ StepAttach(1)
  \/ StepReturn(1)
  \/ StepPop(1)
  \/ StepRecord(1)
  \/ Start
  \/ Tick

SpecRec == InitRec /\ [][NextRec]_vars

\* -------------------------------------------- real-time monitoring
MonCalls == 2
MonTime == 2
MonCtl == 2

\* CPUProfiler(real_time_monitoring=True); one thread calls the wrapped
\* functions, one calls start() and stop()
InitMonitor ==
  Constructed(RateScale, FALSE, TRUE,
              [calls |-> MonCalls, times |-> 1..MonTime, ctl |-> MonCtl])

NextMonitor ==
  \/ \E f \in Funcs : WrapperSkip(1, f)
  \/ \E f \in Funcs, r \in Draws : WrapperEnter(1, f, r)
  \/ StepAttach(1)
  \/ StepReturn(1)
  \/ StepPop(1)
  \/ StepRecord(1)
  \/ Start
  \/ Stop
  \/ StopJoin
  \/ \E m \in DOMAIN monitors : MonitorLoop(m)
  \/ \E m \in DOMAIN monitors : MonitorWake(m)
  \/ \E m \in DOMAIN monitors : MonitorGetStats(m)
  \/ \E m \in DOMAIN monitors : MonitorEmit(m)
  \/ Tick

SpecMonitor == InitMonitor /\ [][NextMonitor]_vars

\* ----------------------------------------------------- profile() blocks
ProfCalls == 2
ProfTime == 2
ProfCtl == 2

\* CPUProfiler(); one thread opens and leaves profile() blocks and calls
\* the wrapped functions; start() is never called
InitProfile ==
  Constructed(RateScale, FALSE, FALSE,
              [calls |-> ProfCalls, times |-> 1..ProfTime, ctl |-> ProfCtl])

NextProfile ==
  \/ \E f \in Funcs : WrapperSkip(1, f)
  \/ \E f \in Funcs, r \in Draws : WrapperEnter(1, f, r)
  \/ StepAttach(1)
  \/ StepReturn(1)
  \/ StepPop(1)
  \/ StepRecord(1)
  \/ \E en \in BOOLEAN : ProfileEnter(en)
  \/ ProfileExit
  \/ Tick

SpecProfile == InitProfile /\ [][NextProfile]_vars

\* ----------------------------------------------- ProfilerStats alone
MaxStats == 3
SortTime == 2
MaxTop == 4

SortNames == {"f", "g", "h"}

\* the FunctionStats objects handed to ProfilerStats
StatsRecords ==
  [name : SortNames, call_count : {1}, total_time : 0..SortTime]

\* the dictionaries function_stats: up to MaxStats entries under distinct
\* names, in every order of insertion
StatsInputs ==
  UNION {{q \in [1..k -> StatsRecords] :
            \A i, j \in 1..k : q[i].name = q[j].name => i = j}
         : k \in 0..MaxStats}

\* ProfilerStats(total_time, function_stats) is constructed (as at
\* profiler.py line 366)
BuildStats(total_time, stats_seq) ==
  /\ snapshot' = ProfilerStats(total_time, stats_seq)
  /\ UNCHANGED <<call_start_times, monitoring, ctx, is_running, enabled,
                 config, timer, now, aggregator, lock, act, raised, history,
                 reader>>

InitSort ==
  Constructed(RateScale, FALSE, FALSE,
              [calls |-> MaxCalls, times |-> 1..MaxTime, ctl |-> MaxCtl])

NextSort ==
  \E total_time \in 0..SortTime, stats_seq \in StatsInputs :
    BuildStats(total_time, stats_seq)

SpecSort == InitSort /\ [][NextSort]_vars

\* ---------------------------------------------------------------- claims
\* every wrapper has returned
AllReturned == \A t \in Threads : act[t] = <<>>

\* the number of frames of the tree that carry the name
FramesNamed(func_name) ==
  Cardinality({i \in DOMAIN frames : frames[i].name = func_name})

\* C1: with sampling_rate = 1.0 and adaptive sampling off, once every call
\* has returned, get_stats() reports for every function the number of calls
\* made to it (counted since the last reset(), in runs where reset() was not
\* called while a call was open); a function never called has no entry.
C1_CallCountEqualsCalls ==
  (sampling_rate = RateScale /\ ~adaptive_sampling /\ AllReturned /\ ~dirty)
  => \A f \in Funcs :
       IF made[f] = 0
       THEN GetStats = NoData \/ f \notin DOMAIN GetStats.function_stats
       ELSE /\ GetStats # NoData
            /\ f \in DOMAIN GetStats.function_stats
            /\ GetStats.function_stats[f].call_count = made[f]

\* two calls of f were made, on one thread or two, and have returned
C1_Witness ==
  /\ sampling_rate = RateScale /\ ~adaptive_sampling /\ AllReturned /\ ~dirty
  /\ made["f"] = 2
  /\ GetStats # NoData
  /\ GetStats.function_stats["f"].call_count = 2

\* C2: get_stats() returns the no-data result exactly when no timing sample
\* has been recorded since construction or the last reset().
C2_NoDataIffNoSample == (GetStats = NoData) <=> (recorded = 0)

\* the first measured call has been entered and runs its body, and
\* get_stats() returns the no-data result
C2_Witness ==
  /\ \E t \in Threads : AtPc(t, "body")
  /\ ncalls = 1 /\ recorded = 0 /\ Len(frames) = 1
  /\ GetStats = NoData

\* C3: a frame is attached only below a frame of its own thread, and the
\* exit of a call pops the frame its enter pushed.
C3_PerThreadStacks ==
  /\ \A c \in DOMAIN frames :
       frames[c].parent # 0
       => frames[frames[c].parent].thread = frames[c].thread
  /\ \A t \in Threads :
       (AtPc(t, "pop") /\ Top(t).frame # 0)
       => (stack # <<>> /\ Last(stack) = Top(t).frame)

\* C4: no state shows a call counted whose frame is not yet in the tree, or
\* a frame finalized and popped whose timing sample is not yet recorded.
C4_EnterExitAtomic ==
  ~dirty =>
    \A f \in Funcs :
      /\ call_counts[f] = FramesNamed(f)
      /\ Cardinality({i \in DOMAIN frames :
            frames[i].name = f /\ \A k \in DOMAIN stack : stack[k] # i})
         = (IF IndexOf(f) = 0 THEN 0 ELSE Len(function_times[IndexOf(f)].times))

\* C5: get_stats() run beside measured calls never raises.
C5_GetStatsNeverRaises == reader.pc # "raised"

\* C6: an exit that finds no open frame raises no error into the profiled
\* code and leaves the lock free.
C6_MismatchedExitDiscarded == lock = 0 /\ \A t \in Threads : ~raised[t]

\* C7: a second stop() leaves the snapshot of get_stats() as the first
\* stop() left it.
C7_StopIdempotent ==
  [][(Stop /\ ~is_running /\ timer_end # 0) => GetStats' = GetStats]_vars

\* C8: stop() leaves call counts, timing samples, the call tree, the stack
\* of open frames, the caller/callee counts and the moving averages as they
\* were.
C8_StopKeepsData == [][Stop => UNCHANGED aggregator]_vars

\* stop() has run while a call was open and samples were recorded
C8_Witness ==
  /\ ~is_running /\ timer_end # 0
  /\ function_times # <<>> /\ stack # <<>>

\* the aggregator state and the session timer are empty
AllCleared ==
  /\ call_counts = [f \in Funcs |-> 0]
  /\ function_times = <<>>
  /\ frames = <<>>
  /\ stack = <<>>
  /\ matrix = [c \in Callers |-> [f \in Funcs |-> 0]]
  /\ avg_times = [f \in Funcs |-> NoAvg]
  /\ timer_start = 0 /\ timer_end = 0

\* C9: after reset() the counts, samples, tree, stack, caller/callee counts,
\* moving averages and timer are empty, and get_stats() returns the no-data
\* result until a sample is recorded again.
C9_ResetClears ==
  [][/\ Reset => (AllCleared' /\ GetStats' = NoData)
     /\ recorded' = 0 => GetStats' = NoData]_vars

\* reset() has run while a call was open, and everything is empty
C9_Witness == dirty /\ AllCleared /\ recorded = 0 /\ GetStats = NoData

\* C10: a reset() called while the profiler is running, or while a measured
\* call is open, does not take effect.
C10_ResetOnlyWhileStopped ==
  [][(Reset /\ (is_running \/ ~AllReturned))
       => UNCHANGED <<aggregator, timer>>]_vars

\* C11: with sampling_rate = 0.0 and adaptive sampling off no call is
\* accepted, whatever the draw: no frame is created, no count incremented,
\* no sample recorded, and get_stats() returns the no-data result.
C11_RateZeroMeasuresNothing ==
  (sampling_rate = 0 /\ ~adaptive_sampling)
  => /\ \A t \in Threads : act[t] = <<>>
     /\ frames = <<>>
     /\ call_counts = [f \in Funcs |-> 0]
     /\ function_times = <<>>
     /\ GetStats = NoData

\* C12: a call of a wrapped function that is not measured (the sampling
\* check rejects it, or the profiler is not running or not enabled) leaves
\* call counts, timing samples, the call tree, the stack of open frames, the
\* caller/callee counts and the moving averages as they were.
C12_UnmeasuredLeavesState ==
  [][(ncalls' = ncalls + 1 /\ made' = made) => UNCHANGED aggregator]_vars

\* start() was the only control call, and the sampling check has rejected a
\* call made while the tree held a frame
C12_Witness == passed /\ is_running /\ nctl = 1 /\ frames # <<>>

\* the frame is still open: its end_time is the initial 0.0
IsOpen(i) == frames[i].end_time = 0

\* C13: when get_stats() builds a snapshot while a frame is open, the open
\* frame adds 0 to the own time of its function and 0 to the children time
\* subtracted from the duration of its parent.
C13_OpenFrameCountsZero ==
  GetStats # NoData =>
    \A i \in DOMAIN frames :
      IsOpen(i) => /\ OwnTime(i) = 0
                   /\ frames[i].parent # 0 => Duration(frames[i]) = 0

\* the sum of own_time over the functions of a snapshot
SumOwnTime(stats) ==
  SumOver([n \in DOMAIN stats.function_stats |->
             stats.function_stats[n].own_time],
          DOMAIN stats.function_stats)

\* C14: in every snapshot the sum of own_time over all functions is at most
\* the total_time of the snapshot, the elapsed time of the session.
C14_OwnTimeWithinSession ==
  GetStats # NoData => SumOwnTime(GetStats) <= GetStats.total_time

\* C15: in every snapshot, also one taken while calls are open, the own_time
\* of a function is at most its total_time; after one measured call of f has
\* returned, call_count of f is 1 and its own_time is at most its total_time.
C15_OwnTimeWithinTotal ==
  GetStats # NoData =>
    \A f \in DOMAIN GetStats.function_stats :
      LET st == GetStats.function_stats[f]
      IN /\ st.own_time <= st.total_time
         /\ (AllReturned /\ ~dirty /\ made[f] = 1) => st.call_count = 1

\* the tree is one root with one chain below it, every frame named f
IsChain ==
  /\ frames # <<>>
  /\ \A i \in DOMAIN frames :
       frames[i].parent = i - 1 /\ frames[i].name = "f"

\* C16: when f, called once from an empty stack at sampling rate 1.0, has
\* recursed to depth n (its n measured calls are all open), the tree is one
\* root with a chain of n frames named f; when the calls have returned,
\* get_stats() reports call_count n for f.
C16_RecursionIsOneChain ==
  /\ (made["f"] >= 1 /\ Len(act[1]) = made["f"] /\ AtPc(1, "body"))
     => (IsChain /\ Len(frames) = made["f"])
  /\ (AllReturned /\ IsChain)
     => (GetStats # NoData
         /\ GetStats.function_stats["f"].call_count = Len(frames))

\* f has recursed to depth RecDepth and every call has returned
C16_Witness ==
  /\ AllReturned /\ IsChain /\ Len(frames) = RecDepth
  /\ GetStats.function_stats["f"].call_count = RecDepth

\* the position of name in the sequence of names
PositionOf(name, names) == CHOOSE i \in DOMAIN names : names[i] = name

\* C17: function_list holds every FunctionStats of function_stats exactly
\* once, ordered by total_time descending, entries of equal total_time in
\* the order of their insertion into function_stats; get_top_functions(n)
\* returns its first min(n, length) entries.
C17_FunctionListSorted ==
  snapshot # NoData =>
    LET list == snapshot.function_list
        names == snapshot.names
    IN /\ Len(list) = Len(names)
       /\ \A n \in DOMAIN snapshot.function_stats :
            Cardinality({i \in DOMAIN list :
               list[i] = snapshot.function_stats[n]}) = 1
       /\ \A i, j \in DOMAIN list :
            i < j => /\ list[i].total_time >= list[j].total_time
                     /\ list[i].total_time = list[j].total_time
                        => PositionOf(list[i].name, names)
                           < PositionOf(list[j].name, names)
       /\ \A n \in 0..MaxTop :
            GetTopFunctions(snapshot, n) = SubSeq(list, 1, Min(n, Len(list)))

\* three entries: the one inserted first has the smallest total_time and
\* the other two are equal
C17_Witness ==
  /\ snapshot # NoData
  /\ Len(snapshot.function_list) = 3
  /\ snapshot.function_list[1].total_time = snapshot.function_list[2].total_time
  /\ snapshot.function_list[2].total_time > snapshot.function_list[3].total_time
  /\ snapshot.names[1] = snapshot.function_list[3].name
  /\ Len(GetTopFunctions(snapshot, 2)) = 2

\* a monitor thread prints a snapshot in this step
Emits ==
  \E m \in DOMAIN monitors :
    monitors[m].pc = "iter" /\ monitors'[m].pc = "loop"

\* C18: with real_time_monitoring no snapshot is emitted after stop() has
\* set the session to not running, and stop() always returns: its join can
\* end.  (That the monitor loop ends after stop() is not part of this
\* formula.)
C18_MonitorStopsCleanly ==
  /\ [][Emits => is_running]_vars
  /\ [](ctl_pc = "join" => ENABLED StopJoin)

\* C19: no error raised inside an emit ends the monitor loop.
C19_MonitorSurvivesErrors ==
  \A m \in DOMAIN monitors : monitors[m].pc # "raised"

\* C20: with start() never called, a call of a wrapped function made inside
\* a profile() block (enabled=True) is measured, and once the blocks are
\* left and the calls have returned get_stats() returns a snapshot that
\* holds every function measured.
C20_ProfileBlockMeasures ==
  /\ [][(ctx # <<>> /\ enabled /\ ncalls' = ncalls + 1)
          => \E f \in Funcs : made'[f] = made[f] + 1]_vars
  /\ []((ctx = <<>> /\ AllReturned)
          => \A f \in Funcs :
               made[f] > 0 => (GetStats # NoData
                               /\ f \in DOMAIN GetStats.function_stats))

\* f and g were called in a profile() block, the block has been left, and
\* the snapshot holds both
C20_Witness ==
  /\ ctx = <<>> /\ ~is_running /\ timer_end # 0 /\ AllReturned
  /\ GetStats # NoData
  /\ DOMAIN GetStats.function_stats = {"f", "g"}

C22_RateBelowFastThreshold ==
  \A f \in Funcs :
    EffectiveRate(f) =
      IF ~adaptive_sampling \/ avg_times[f] = NoAvg THEN sampling_rate
      ELSE IF avg_times[f] > SlowThreshold
           THEN Min(RateScale, 2 * sampling_rate)
           ELSE IF avg_times[f] < FastThreshold
                THEN Max(MinRate, sampling_rate \div 2)
                ELSE sampling_rate

\* C22, amended: the effective rate of f is the base rate p if f has no
\* average or adaptive sampling is off, min(1.0, 2p) if the average exceeds
\* the slow threshold, max(0.1, p/2) if the average is at or below the fast
\* threshold, and p otherwise.
C22_EffectiveRate ==
  \A f \in Funcs :
    EffectiveRate(f) =
      IF ~adaptive_sampling \/ avg_times[f] = NoAvg THEN sampling_rate
      ELSE IF avg_times[f] > SlowThreshold
           THEN Min(RateScale, 2 * sampling_rate)
           ELSE IF avg_times[f] <= FastThreshold
                THEN Max(MinRate, sampling_rate \div 2)
                ELSE sampling_rate

\* at base rate 0.5, f is slow and sampled at 1.0 and g is fast and sampled
\* at 0.25
C22_Witness ==
  /\ adaptive_sampling /\ sampling_rate = 500
  /\ avg_times["f"] > SlowThreshold /\ EffectiveRate("f") = RateScale
  /\ avg_times["g"] # NoAvg /\ avg_times["g"] < FastThreshold
  /\ EffectiveRate("g") = 250

\* C23: when pyprofiler.run() with sampling_rate = 1.0 has ended and every
\* call has returned, the snapshot it returns reports for every function f a
\* call_count equal to the number of call events of f (one timing sample
\* per call), recursive and overlapping calls included.
C23_RunCountsEveryCall ==
  (sampling_rate = RateScale /\ nctl = RunCtl /\ AllReturned)
  => \A f \in Funcs :
       made[f] > 0 => /\ snapshot # NoData
                      /\ f \in DOMAIN snapshot.function_stats
                      /\ snapshot.function_stats[f].call_count = made[f]

\* C24: in the hook of pyprofiler.run(), the return event of a call that the
\* sampling draw rejected records no sample and takes no start time away.
C24_RejectedReturnIsNoOp ==
  [][\A t \in Threads :
       (AtPc(t, "run") /\ ~Top(t).accepted /\ act'[t] = Front(act[t]))
       => UNCHANGED <<function_times, call_start_times>>]_vars

\* C25: once a function decorated with the module-level profile_function
\* has been called, the default profiler has counted a call and recorded a
\* timing sample.
C25_DecoratedCallMeasured ==
  ncalls > 0 => /\ \E f \in Funcs : call_counts[f] > 0
                /\ function_times # <<>>

\* the name under which the parent of frame i is counted
ParentName(i) ==
  IF frames[i].parent = 0 THEN Module ELSE frames[frames[i].parent].name

\* the number of frames named f in the tree whose parent is named c
TreeCount(c, f) ==
  Cardinality({i \in DOMAIN frames :
                  frames[i].name = f /\ ParentName(i) = c})

\* C26: in every reachable state, under every interleaving of the threads,
\* the count the caller/callee matrix stores for (c, f) is the number of
\* frames named f in the call tree whose parent frame is named c, roots
\* being counted under '<module>'.
C26_MatrixAgreesWithTree ==
  \A c \in Callers, f \in Funcs : matrix[c][f] = TreeCount(c, f)

\* the root of the tree that holds frame i
RECURSIVE RootOf(_)
RootOf(i) == IF frames[i].parent = 0 THEN i ELSE RootOf(frames[i].parent)

\* the frames of the subtree of root r
Subtree(r) == {i \in DOMAIN frames : RootOf(i) = r}

\* C27: in a call tree built by one thread from calls that have all
\* returned, every frame's own time is >= 0 and the own times of the frames
\* of a root's subtree add up to the root's duration.
C27_OwnTimesAddUp ==
  AllReturned =>
    /\ \A i \in DOMAIN frames : OwnTime(i) >= 0
    /\ \A r \in Roots :
         SumOver([i \in DOMAIN frames |-> OwnTime(i)], Subtree(r))
           = Duration(frames[r])

\* f has returned after 2 ms, 1 ms of which was spent in its child g, and a
\* second root lies beside it
C27_Witness ==
  /\ AllReturned
  /\ Len(frames) = 3
  /\ Cardinality(Roots) = 2
  /\ \E r \in Roots, c \in DOMAIN frames :
       /\ frames[c].parent = r
       /\ Duration(frames[r]) = 2
       /\ Duration(frames[c]) = 1
       /\ OwnTime(r) = 1

\* the own time of the name f collected root by root over the subtrees
TreeOwnTime(f) ==
  SumOver([r \in DOMAIN frames |->
             SumOver([i \in DOMAIN frames |-> OwnTime(i)],
                     {i \in Subtree(r) : frames[i].name = f})],
          Roots)

\* the timing samples recorded under the name f
SamplesOf(f) ==
  LET i == CHOOSE i \in DOMAIN function_times : function_times[i].name = f
  IN function_times[i].times

\* C28 as stated: the own_time get_stats() reports for f is the sum, over the
\* frames named f anywhere in the call tree, of max(0, duration minus the
\* direct children's durations), and total_time is the sum of f's samples.
C28_OwnTimeFromTree ==
  GetStats # NoData =>
    \A f \in DOMAIN GetStats.function_stats :
      /\ GetStats.function_stats[f].own_time = TreeOwnTime(f)
      /\ GetStats.function_stats[f].total_time = SumSeq(SamplesOf(f))

\* C28, amended: the own_time get_stats() reports for f is that sum when
\* the call tree holds a frame named f, and f's total_time when it holds
\* none; total_time is the sum of f's samples.
C28_OwnTimeFromTreeOrTotal ==
  GetStats # NoData =>
    \A f \in DOMAIN GetStats.function_stats :
      /\ GetStats.function_stats[f].own_time =
           IF FramesNamed(f) > 0 THEN TreeOwnTime(f)
           ELSE SumSeq(SamplesOf(f))
      /\ GetStats.function_stats[f].total_time = SumSeq(SamplesOf(f))

\* g was open at reset() and recorded its sample afterwards: no frame is
\* named g and its own_time is its total_time; f was called after the
\* reset and has its own_time from its frame
C28_Witness ==
  /\ GetStats # NoData
  /\ DOMAIN GetStats.function_stats = {"f", "g"}
  /\ FramesNamed("g") = 0
  /\ GetStats.function_stats["g"].total_time > 0
  /\ GetStats.function_stats["g"].own_time
       = GetStats.function_stats["g"].total_time
  /\ FramesNamed("f") = 1
  /\ TreeOwnTime("f") > 0
  /\ GetStats.function_stats["f"].own_time = TreeOwnTime("f")

\* the FunctionStats of the snapshot that the get_stats() of the reader has
\* returned, by name
ReturnedStats ==
  [f \in {reader.stats[i].name : i \in DOMAIN reader.stats} |->
     reader.stats[CHOOSE i \in DOMAIN reader.stats :
                    reader.stats[i].name = f]]

\* C29: for every function f of a snapshot that get_stats() has returned,
\* callers[f] is the column of the caller/callee matrix for f and callees[f]
\* is its row, over the non-zero counts; hence callees[f][g] = callers[g][f]
\* when f and g are both in the snapshot.
C29_CallersColumnCalleesRow ==
  (reader.pc = "returned" /\ reader.stats # <<>>) =>
    LET fs == ReturnedStats
    IN \A f \in DOMAIN fs, g \in DOMAIN fs :
         /\ g \in DOMAIN fs[f].callees <=> f \in DOMAIN fs[g].callers
         /\ g \in DOMAIN fs[f].callees
              => fs[f].callees[g] = fs[g].callers[f]

\* the average of a function before its first update counts as 0.0
OldAvg(f) == IF avg_times[f] = NoAvg THEN 0 ELSE avg_times[f]

\* thread t has stepped past the update of the moving average of its
\* innermost measured call
AvgStep(t) == AtPc(t, "avg") /\ act'[t] # act[t]

\* the innermost measured call of thread t has returned from its body
ReturnStep(t) ==
  /\ AtPc(t, "body")
  /\ Len(act'[t]) = Len(act[t])
  /\ act'[t] # act[t]

\* with adaptive sampling on, every measured call that returns comes to the
\* update of the average, and the averages change in no other step
OncePerCall ==
  /\ \A t \in Threads :
       (adaptive_sampling /\ ReturnStep(t)) => Last(act'[t]).pc = "avg"
  /\ avg_times' # avg_times => \E t \in Threads : AvgStep(t)

\* C30 as stated: with adaptive sampling enabled, the value fed into the
\* moving average of a function when a measured call of it returns is the
\* call's own duration, its elapsed time less the durations of its measured
\* children, and the average is updated exactly once per measured call.
C30_AverageFedOwnTime ==
  [][/\ \A t \in Threads :
          AvgStep(t) =>
            avg_times' = [avg_times EXCEPT ![Top(t).func] =
               MovingAverage(OldAvg(Top(t).func),
                 Max(0, Top(t).end_time - Top(t).start_time
                        - ChildrenTime(Top(t).frame)))]
     /\ OncePerCall]_vars

\* C30, amended: the value fed is the call's elapsed time, end_time less
\* start_time, the durations of its children included; the average is
\* updated exactly once per measured call.
C30_AverageFedElapsed ==
  [][/\ \A t \in Threads :
          AvgStep(t) =>
            avg_times' = [avg_times EXCEPT ![Top(t).func] =
               MovingAverage(OldAvg(Top(t).func),
                             Top(t).end_time - Top(t).start_time)]
     /\ OncePerCall]_vars

\* f took 1 ms, all of it in its child g: the average of f has been updated
\* to 0.1 ms, where the own time of the call is 0
C30_Witness ==
  /\ adaptive_sampling
  /\ AtPc(1, "pop")
  /\ Top(1).func = "f"
  /\ Top(1).end_time - Top(1).start_time = 1
  /\ Top(1).frame # 0
  /\ ChildrenTime(Top(1).frame) = 1
  /\ avg_times["f"] = 100
  /\ avg_times["g"] = 100

\* C31: once stop() has returned, the call counts, the timing samples, the
\* call tree and the caller/callee matrix do not change before the next
\* start(), profile() block or reset(), also when measured calls that were
\* entered before stop() return afterwards.
C31_NoChangeAfterStop ==
  [][(/\ nctl > 0
      /\ ~is_running
      /\ ctl_pc = "idle"
      /\ nctl' = nctl
      /\ ctx' = ctx)
     => UNCHANGED <<call_counts, function_times, frames, matrix>>]_vars

\* frame i of the tree has been finalized: its end_time is set
Finalized(i) == frames[i].end_time # 0

\* C32: once the end_time of a frame has been set, the frame never gains
\* another child and its duration and its own time never change, under
\* every interleaving of measured calls on several threads.
C32_FinalizedFrameStable ==
  [][\A i \in DOMAIN frames :
       (Finalized(i) /\ i \in DOMAIN frames')
       => /\ Children(i)' = Children(i)
          /\ Duration(frames[i])' = Duration(frames[i])
          /\ OwnTime(i)' = OwnTime(i)]_vars

\* the monitor threads that have not ended
AliveMonitors ==
  {m \in DOMAIN monitors : monitors[m].pc \notin {"done", "raised"}}

\* C33: at most one monitor thread of a CPUProfiler is alive at any time,
\* for every sequence of start() and stop() calls.
C33_OneMonitorAlive == Cardinality(AliveMonitors) <= 1

\* the number of timing samples recorded under the name f
NumSamples(f) ==
  IF \E i \in DOMAIN function_times : function_times[i].name = f
  THEN Len(SamplesOf(f)) ELSE 0

\* the sum of the caller/callee counts with callee f
CountAsCallee(f) == SumOver([c \in Callers |-> matrix[c][f]], Callers)

\* C34: whenever no measured call is in progress, and reset() has not run
\* while one was, the stack of open calls is empty, every frame of the tree
\* has end_time >= start_time, and for every function f the call count, the
\* number of timing samples, the number of frames named f and the sum of
\* the matrix counts with callee f are equal.
C34_QuiescentCountsAgree ==
  (AllReturned /\ ~dirty) =>
    /\ stack = <<>>
    /\ \A i \in DOMAIN frames : frames[i].end_time >= frames[i].start_time
    /\ \A f \in Funcs :
         /\ call_counts[f] = NumSamples(f)
         /\ call_counts[f] = FramesNamed(f)
         /\ call_counts[f] = CountAsCallee(f)

\* the two threads have each made a measured call, one of f inside which
\* the other's g was attached, and both have returned
C34_Witness ==
  /\ AllReturned /\ ~dirty
  /\ call_counts["f"] = 1 /\ call_counts["g"] = 1
  /\ NumSamples("f") = 1 /\ NumSamples("g") = 1
  /\ \E i, j \in DOMAIN frames :
       /\ frames[i].thread = 1 /\ frames[j].thread = 2
       /\ frames[j].parent = i
       /\ frames[j].end_time > frames[i].end_time

\* C35: whenever the profiler is running, the total_time that get_stats()
\* reports is non-negative and is the reading of the clock less the reading
\* at the most recent start of the session timer.
C35_TotalTimeSinceStart ==
  (is_running /\ GetStats # NoData) =>
    /\ GetStats.total_time >= 0
    /\ GetStats.total_time = now - timer_start

\* C36: in adaptive mode a function whose recorded average is below the
\* fast threshold is never sampled at a higher rate than the configured
\* sampling_rate, whatever that rate is.
C36_FastNeverAboveBase ==
  \A f \in Funcs :
    (adaptive_sampling /\ avg_times[f] # NoAvg
       /\ avg_times[f] < FastThreshold)
    => EffectiveRate(f) <= sampling_rate

\* a profile() block is entered: the block on top of ctx is new
BlockEntered == Len(ctx') = Len(ctx) + 1

\* the innermost profile() block is left, normally or by an exception
BlockLeft == Len(ctx') = Len(ctx) - 1

\* C37: leaving a profile(enabled) block, normally or through an exception,
\* puts the running flag and the enabled flag back to the values they had
\* when the block was entered, and inside a block opened with enabled=False
\* no call of a wrapped function is measured.
C37_ProfileRestoresFlags ==
  /\ [][/\ BlockEntered =>
             /\ Last(ctx').old_running = is_running
             /\ Last(ctx').old_enabled = enabled
        /\ \A i \in DOMAIN ctx \cap DOMAIN ctx' : ctx'[i] = ctx[i]
        /\ BlockLeft =>
             /\ is_running' = Last(ctx).old_running
             /\ enabled' = Last(ctx).old_enabled
        /\ (ctx # <<>> /\ ~enabled /\ ncalls' = ncalls + 1)
             => UNCHANGED <<aggregator, made>>]_vars
  /\ [](ctx = <<>> => (~is_running /\ enabled))

\* a block opened with enabled=False holds a call that was not measured and
\* an inner block, opened with enabled=True, that measured a call and has
\* been left: the profiler is disabled again
C37_Witness ==
  /\ Len(ctx) = 1 /\ nctl = ProfCtl
  /\ ~enabled /\ is_running
  /\ ~ctx[1].old_running /\ ctx[1].old_enabled
  /\ ncalls = 2 /\ made["f"] = 1 /\ made["g"] = 0
  /\ AllReturned

====
